---- MODULE Spec2Model ----
(***************************************************************************)
(* Verification model of two parts of pw_kernel:                           *)
(*   - the PMSAv7 MPU region compiler and MPU writer                       *)
(*     (pw_kernel/arch/arm_cortex_m/protection_v7.rs), and                 *)
(*   - the multi-ELF system assembler                                      *)
(*     (pw_kernel/tooling/system_assembler.rs).                            *)
(*                                                                         *)
(* Three specifications share the variables of this module:                *)
(*   SpecRegion  one logical region compiled by from_memory_region         *)
(*   SpecMpu     MemoryConfig::write, one register write per step          *)
(*   SpecAsm     assemble(): kernel image plus apps, one loop iteration     *)
(*               per step                                                  *)
(***************************************************************************)
EXTENDS Integers, Sequences, FiniteSets, TLC

VARIABLES
    \* ---- region compiler (SpecRegion)
    region,         \* the MemoryRegion handed to from_memory_region
    compiled,       \* the result of from_memory_region, once rpc = "compiled"
    rpc,            \* "input" before from_memory_region ran, "compiled" after
    \* ---- MPU writer (SpecMpu)
    mpu_ctrl,       \* MPU_CTRL register
    mpu_rnr,        \* MPU_RNR register
    mpu_slots,      \* per hardware region: the RBAR and RASR it holds
    config,         \* the MemoryConfig being written (index into MemoryConfigs)
    wpc,            \* position inside MemoryConfig::write
    windex,         \* loop index of the region loop
    wlog,           \* register writes and barriers issued by the current write
    nwrites,        \* number of completed calls of write
    entry_ctrl,     \* MPU_CTRL as it was when the current write was entered
    entry_slots,    \* mpu_slots as they were when the current write was entered
    \* ---- system assembler (SpecAsm)
    args,           \* the kernel image and the app images, in --app order
    apc,            \* position inside assemble()
    out_sections,   \* builder.sections of the system image
    out_segments,   \* builder.segments of the system image
    out_symbols,    \* builder.symbols of the system image
    tokenized_section,  \* SystemImage::tokenized_section (NoSection: None)
    section_map,    \* the section_map of the app being merged
    sections_for_fixup, \* sections_for_fixup of add_app_sections
    app_index,      \* position of the app being merged, from 1
    cursor,         \* index of the loop apc is in
    seg_cursor,     \* index of the inner loop of add_app_segments
    section_maps    \* the final section_map of every app merged so far

regionVars == <<region, compiled, rpc>>
mpuVars ==
    <<mpu_ctrl, mpu_rnr, mpu_slots, config, wpc, windex, wlog, nwrites,
      entry_ctrl, entry_slots>>
asmVars ==
    <<args, apc, out_sections, out_segments, out_symbols, tokenized_section,
      section_map, sections_for_fixup, app_index, cursor, seg_cursor,
      section_maps>>
vars ==
    <<region, compiled, rpc, mpu_ctrl, mpu_rnr, mpu_slots, config, wpc, windex,
      wlog, nwrites, entry_ctrl, entry_slots, args, apc, out_sections,
      out_segments, out_symbols, tokenized_section, section_map,
      sections_for_fixup, app_index, cursor, seg_cursor, section_maps>>

(***************************************************************************)
(* usize arithmetic.  The target is a 32-bit Cortex-M, usize is 32 bits.   *)
(* A value v is held as the pair <<g, o>> with v = 32 * g + o, 0 <= o < 32 *)
(* (g is the 32-byte granule, the ADDR[31:5] field of an address), so that *)
(* every value up to and beyond 2^32 is exact.                             *)
(***************************************************************************)
U(x) == <<x \div 32, x % 32>>

Zero == <<0, 0>>

Lt(a, b) == a[1] < b[1] \/ (a[1] = b[1] /\ a[2] < b[2])

Le(a, b) == ~Lt(b, a)

Add(a, b) ==
    LET o == a[2] + b[2] IN <<a[1] + b[1] + (o \div 32), o % 32>>

\* a - b for b <= a
Sub(a, b) ==
    LET o == a[2] - b[2] IN
    IF o >= 0 THEN <<a[1] - b[1], o>> ELSE <<a[1] - b[1] - 1, o + 32>>

\* i * a for a small natural i
Times(i, a) ==
    LET o == i * a[2] IN <<i * a[1] + (o \div 32), o % 32>>

\* a / 8 (integer division)
Div8(a) ==
    LET w == 4 * a[1] + (a[2] \div 8) IN <<w \div 32, w % 32>>

\* a >> 1
Shr1(a) == <<a[1] \div 2, (a[2] + 32 * (a[1] % 2)) \div 2>>

\* the value fits a 32-bit usize: v < 2^32
FitsUsize(a) == a[1] < 134217728

\* a & !(size - 1) for size a power of two
AlignDown(a, size) ==
    IF size[1] = 0
    THEN <<a[1], a[2] - (a[2] % size[2])>>
    ELSE <<a[1] - (a[1] % size[1]), 0>>

\* 2^n as an integer, n < 31
RECURSIVE IntPow2(_)
IntPow2(n) == IF n = 0 THEN 1 ELSE 2 * IntPow2(n - 1)

\* 2^n as a usize
Pow2(n) == IF n >= 5 THEN <<IntPow2(n - 5), 0>> ELSE <<0, IntPow2(n)>>

(***************************************************************************)
(* Region compiler: MpuRegion::calculate_aligned_region and helpers.       *)
(***************************************************************************)
MAX_REGION_SIZE == <<67108864, 0>>      \* 0x8000_0000

PAGE_256KB == <<8192, 0>>               \* 0x40000

\* a minimum region size of 16 bytes, below the 32 bytes of the architecture
MinRegionSixteen == <<0, 16>>

MIN_REGION_SIZE == <<1, 0>>             \* 32

\* the maximum-size return with the SIZE field of a 4 GiB region
MaxRegionFourGiB(path) ==
    [path |-> path, base |-> Zero, size_field |-> 31, srd_mask |-> 0]

\* the "maximum size" region returned on the three fallback paths
MaxRegion(path) ==
    [path |-> path, base |-> Zero, size_field |-> 30, srd_mask |-> 0]

\* an arithmetic overflow of usize (a panic in const evaluation)
Overflow == [path |-> "overflow"]

\* while size > 1 { size >>= 1; bits += 1; }
RECURSIVE HighestBit(_, _)
HighestBit(size, bits) ==
    IF Lt(<<0, 1>>, size) THEN HighestBit(Shr1(size), bits + 1) ELSE bits

\* the SIZE field taken as log2(size), without the - 1
calculate_size_field_log2(size_bytes) ==
    LET bits == HighestBit(size_bytes, 0) IN
    IF bits < 5 THEN 4 ELSE bits

calculate_size_field(size_bytes) ==
    LET bits == HighestBit(size_bytes, 0) IN
    IF bits < 5 THEN 4 ELSE bits - 1

\* while region_size < requested_size { region_size *= 2; if > MAX return }
\* result: Zero when the fallback return is taken, else the region size
RECURSIVE RoundUpRegionSize(_, _)
RoundUpRegionSize(region_size, requested_size) ==
    IF Lt(region_size, requested_size)
    THEN LET doubled == Add(region_size, region_size) IN
         IF Lt(MAX_REGION_SIZE, doubled)
         THEN Zero
         ELSE RoundUpRegionSize(doubled, requested_size)
    ELSE region_size

\* GuardedBase without the cross-boundary guard
UnguardedBase(start, size) == AlignDown(start, size)

\* the base chosen for a region of the given size: the aligned-down start,
\* or the start's 256 KiB page when aligning down crosses below that page
GuardedBase(start, size) ==
    LET start_page == AlignDown(start, PAGE_256KB)
        naive_aligned_base == AlignDown(start, size)
    IN  IF Lt(naive_aligned_base, start_page)
        THEN start_page
        ELSE naive_aligned_base

\* CoverLoop that never enlarges the region
CoverLoopNoDoubling(final_base, final_size, start, end) ==
    [path |-> "computed", base |-> final_base, size |-> final_size]

\* while final_base + final_size < end { ... }
RECURSIVE CoverLoop(_, _, _, _)
CoverLoop(final_base, final_size, start, end) ==
    LET top == Add(final_base, final_size) IN
    IF ~FitsUsize(top)
    THEN Overflow
    ELSE IF Lt(top, end)
    THEN LET doubled == Add(final_size, final_size) IN
         IF ~FitsUsize(doubled)
         THEN Overflow
         ELSE IF Lt(MAX_REGION_SIZE, doubled)
         THEN MaxRegion("fallback_cover")
         ELSE CoverLoop(GuardedBase(start, doubled), doubled, start, end)
    ELSE [path |-> "computed", base |-> final_base, size |-> final_size]

\* the overlap test with its second half left out
SubRegionBitEndOnly(final_base, subregion_size, start, end, i) ==
    LET subregion_start == Add(final_base, Times(i, subregion_size))
    IN  IF Lt(subregion_start, end) THEN 0 ELSE IntPow2(i)

\* bit i of the sub-region disable mask: set when sub-region i does not
\* overlap [start, end)
SubRegionBit(final_base, subregion_size, start, end, i) ==
    LET subregion_start == Add(final_base, Times(i, subregion_size))
        subregion_end == Add(subregion_start, subregion_size)
        overlaps == Lt(subregion_start, end) /\ Lt(start, subregion_end)
    IN  IF overlaps THEN 0 ELSE IntPow2(i)

RECURSIVE SrdLoop(_, _, _, _, _)
SrdLoop(final_base, subregion_size, start, end, i) ==
    IF i < 8
    THEN SubRegionBit(final_base, subregion_size, start, end, i)
         + SrdLoop(final_base, subregion_size, start, end, i + 1)
    ELSE 0

calculate_aligned_region(start, end) ==
    IF Lt(end, start)
    THEN Overflow
    ELSE
    LET requested_size == Sub(end, start) IN
    IF Le(MAX_REGION_SIZE, requested_size)
    THEN MaxRegion("max")
    ELSE
    LET region_size == RoundUpRegionSize(MIN_REGION_SIZE, requested_size) IN
    IF region_size = Zero
    THEN MaxRegion("fallback_round")
    ELSE
    LET cover == CoverLoop(GuardedBase(start, region_size), region_size,
                           start, end)
    IN
    IF cover.path # "computed"
    THEN cover
    ELSE [path |-> "computed",
          base |-> cover.base,
          size_field |-> calculate_size_field(cover.size),
          srd_mask |-> SrdLoop(cover.base, Div8(cover.size), start, end, 0)]

(***************************************************************************)
(* Register values.  A register value is a record of its fields; with_x    *)
(* of the source is an EXCEPT on field x.                                  *)
(***************************************************************************)
RbarDefault == [valid |-> FALSE, region |-> 0, addr |-> 0]

RasrDefault ==
    [enable |-> FALSE, size |-> 0, srd |-> 0, tex |-> 0, s |-> FALSE,
     c |-> FALSE, b |-> FALSE, ap |-> "NoAccess", xn |-> FALSE]

\* RBAR.ADDR is bits [31:5] of the address
with_addr(rbar, addr) == [rbar EXCEPT !.addr = addr[1]]

\* RASR.SIZE is the five bits [5:1]
with_size(rasr, size) == [rasr EXCEPT !.size = size % 32]

\* RASR.SRD is the eight bits [15:8]
with_srd(rasr, srd) == [rasr EXCEPT !.srd = srd % 256]

RegionTypes ==
    {"ReadOnlyData", "ReadWriteData", "ReadOnlyExecutable",
     "ReadWriteExecutable", "Device"}

\* the attribute match with every normal-memory entry shareable
AttributesAllShareable(ty) ==
    [xn |-> ty \in {"ReadOnlyData", "ReadWriteData", "Device"},
     tex |-> IF ty = "Device" THEN 0 ELSE 1,
     s |-> TRUE,
     c |-> ty # "Device",
     b |-> TRUE,
     ap |-> IF ty \in {"ReadWriteData", "ReadWriteExecutable"}
            THEN "RwAny" ELSE "RoAny"]

\* (xn, tex, s, c, b, ap) of a region type
Attributes(ty) ==
    CASE ty = "ReadOnlyData" ->
           [xn |-> TRUE, tex |-> 1, s |-> TRUE, c |-> TRUE, b |-> TRUE,
            ap |-> "RoAny"]
      [] ty = "ReadWriteData" ->
           [xn |-> TRUE, tex |-> 1, s |-> FALSE, c |-> TRUE, b |-> TRUE,
            ap |-> "RwAny"]
      [] ty = "ReadOnlyExecutable" ->
           [xn |-> FALSE, tex |-> 1, s |-> TRUE, c |-> TRUE, b |-> TRUE,
            ap |-> "RoAny"]
      [] ty = "ReadWriteExecutable" ->
           [xn |-> FALSE, tex |-> 1, s |-> TRUE, c |-> TRUE, b |-> TRUE,
            ap |-> "RwAny"]
      [] ty = "Device" ->
           [xn |-> TRUE, tex |-> 0, s |-> TRUE, c |-> FALSE, b |-> TRUE,
            ap |-> "RoAny"]

MpuRegionDefault == [rbar |-> RbarDefault, rasr |-> RasrDefault]

\* result: [panic |-> TRUE] when calculate_aligned_region overflows, else
\* the MpuRegion together with the AlignedRegion it was built from
from_memory_region(r) ==
    LET aligned_region == calculate_aligned_region(r.start, r.end)
        a == Attributes(r.ty)
    IN  IF aligned_region.path = "overflow"
        THEN [panic |-> TRUE]
        ELSE [panic |-> FALSE,
              aligned |-> aligned_region,
              rbar |-> with_addr([RbarDefault EXCEPT !.valid = FALSE],
                                 aligned_region.base),
              rasr |-> [with_srd(with_size([RasrDefault EXCEPT
                                                !.enable = TRUE],
                                            aligned_region.size_field),
                                  aligned_region.srd_mask)
                          EXCEPT
                          !.tex = a.tex, !.s = a.s, !.c = a.c, !.b = a.b,
                          !.ap = a.ap, !.xn = a.xn]]

(***************************************************************************)
(* SpecRegion: one logical region compiled by from_memory_region.          *)
(* The inputs are drawn from 256 KiB pages 0..MaxPage, from the two pages   *)
(* below 2^31 and from the two pages below 2^32, at chosen offsets, with   *)
(* chosen lengths, plus the kernel's whole-address-space region, regions   *)
(* of 2 GiB and more, and regions with end <= start.                       *)
(***************************************************************************)
MaxPage == 9

Pages == (0 .. MaxPage) \cup {8190, 8191, 16382, 16383}

StartOffsets == {0, 4, 32, 1056, 131072, 262112, 262140}

Lengths ==
    {1, 31, 32, 33, 224, 4096, 131072, 262144, 262145, 524288, 1048576,
     4194304}

\* 2^31 and 2^32 - 1
Two31 == <<67108864, 0>>

MaxUsize == <<134217727, 31>>

SampledRegions ==
    {[ty |-> ty, start |-> Add(Times(p, PAGE_256KB), U(off)),
      end |-> Add(Add(Times(p, PAGE_256KB), U(off)), U(len))] :
        ty \in RegionTypes, p \in Pages, off \in StartOffsets,
        len \in Lengths}

KernelRegion ==
    [ty |-> "ReadWriteExecutable", start |-> Zero, end |-> MaxUsize]

\* regions with end - start >= 2^31, at several starts
WideRegions ==
    {[ty |-> ty, start |-> se[1], end |-> se[2]] :
        ty \in {"ReadWriteExecutable", "ReadWriteData"},
        se \in {<<Zero, Two31>>,
                <<U(4096), Add(Two31, U(4096))>>,
                <<U(4096), MaxUsize>>,
                <<Times(4096, PAGE_256KB), Times(12288, PAGE_256KB)>>,
                <<Sub(Two31, <<0, 1>>), MaxUsize>>}}

\* regions with end = start and with end < start
MalformedRegions ==
    {[ty |-> ty, start |-> U(se[1]), end |-> U(se[2])] :
        ty \in {"ReadWriteData", "ReadOnlyExecutable"},
        se \in {<<0, 0>>, <<262144, 262144>>, <<262146, 262146>>,
                <<263200, 263200>>, <<263200, 262144>>, <<4096, 0>>}}

RegionInputs ==
    {r \in SampledRegions : FitsUsize(r.end)}
    \cup {KernelRegion} \cup WideRegions \cup MalformedRegions

MpuIdle ==
    /\ mpu_ctrl = [enable |-> FALSE, hfnmiena |-> FALSE, privdefena |-> FALSE]
    /\ mpu_rnr = 0
    /\ mpu_slots = <<>>
    /\ config = 0
    /\ wpc = "off"
    /\ windex = 0
    /\ wlog = <<>>
    /\ nwrites = 0
    /\ entry_ctrl = [enable |-> FALSE, hfnmiena |-> FALSE, privdefena |-> FALSE]
    /\ entry_slots = <<>>

RegionIdle ==
    /\ region = KernelRegion
    /\ compiled = [panic |-> FALSE]
    /\ rpc = "off"

\* the assembler is not run: no image, no builder
AsmIdle ==
    /\ args = [kernel |-> <<>>, apps |-> <<>>]
    /\ apc = "off"
    /\ out_sections = <<>>
    /\ out_segments = <<>>
    /\ out_symbols = <<>>
    /\ tokenized_section = 0
    /\ section_map = <<>>
    /\ sections_for_fixup = <<>>
    /\ app_index = 0
    /\ cursor = 0
    /\ seg_cursor = 0
    /\ section_maps = <<>>

InitRegion ==
    /\ AsmIdle
    /\ region \in RegionInputs
    /\ compiled = [panic |-> FALSE]
    /\ rpc = "input"
    /\ MpuIdle

CompileRegion ==
    /\ rpc = "input"
    /\ compiled' = from_memory_region(region)
    /\ rpc' = "compiled"
    /\ UNCHANGED <<region, mpuVars, asmVars>>

NextRegion == CompileRegion

SpecRegion == InitRegion /\ [][NextRegion]_vars

(***************************************************************************)
(* MemoryConfig: const_new and write.                                      *)
(***************************************************************************)
NUM_MPU_REGIONS == 8

\* the logical region lists of the memory configurations written
MemoryConfigs ==
    << <<KernelRegion>>,
       <<[ty |-> "ReadOnlyExecutable", start |-> U(263200), end |-> U(394272)],
         [ty |-> "ReadWriteData", start |-> U(656416), end |-> U(672800)]>>,
       <<[ty |-> "ReadOnlyExecutable", start |-> U(328736), end |-> U(394272)],
         [ty |-> "ReadWriteData", start |-> U(672800), end |-> U(689184)],
         [ty |-> "Device", start |-> Add(Pow2(30), Zero),
          end |-> Add(Pow2(30), U(4096))]>> >>

\* const_new that fills the unused slots with the image of the last region
const_new_repeat_last(regions) ==
    [i \in 0 .. (NUM_MPU_REGIONS - 1) |->
        LET m == from_memory_region(
                     regions[IF i < Len(regions) THEN i + 1 ELSE Len(regions)])
        IN  [rbar |-> m.rbar, rasr |-> m.rasr]]

\* mpu_regions of MemoryConfig::const_new(regions)
const_new(regions) ==
    [i \in 0 .. (NUM_MPU_REGIONS - 1) |->
        IF i < Len(regions)
        THEN LET m == from_memory_region(regions[i + 1]) IN
             [rbar |-> m.rbar, rasr |-> m.rasr]
        ELSE MpuRegionDefault]

mpu_regions == const_new(MemoryConfigs[config])

\* the number of calls of write in one behaviour
MaxWrites == 2

CtrlValues ==
    [enable : BOOLEAN, hfnmiena : BOOLEAN, privdefena : BOOLEAN]

\* the region slots before the first write: as they are after reset, or left
\* by an earlier configuration that used every slot
PriorSlots ==
    {[i \in 0 .. (NUM_MPU_REGIONS - 1) |-> MpuRegionDefault],
     const_new([i \in 1 .. NUM_MPU_REGIONS |->
                  [ty |-> "ReadWriteData",
                   start |-> Add(Pow2(29), Times(i, U(4096))),
                   end |-> Add(Pow2(29), Times(i + 1, U(4096)))]])}

InitMpu ==
    /\ AsmIdle
    /\ RegionIdle
    /\ mpu_ctrl \in CtrlValues
    /\ mpu_rnr = 0
    /\ mpu_slots \in PriorSlots
    /\ config = 0
    /\ wpc = "idle"
    /\ windex = 0
    /\ wlog = <<>>
    /\ nwrites = 0
    /\ entry_ctrl = mpu_ctrl
    /\ entry_slots = mpu_slots

\* a context switch or the boot path calls write on some configuration
WriteBegin ==
    /\ wpc \in {"idle", "done"}
    /\ nwrites < MaxWrites
    /\ \E c \in 1 .. Len(MemoryConfigs) : config' = c
    /\ wpc' = "ctrl_first"
    /\ windex' = 0
    /\ wlog' = <<>>
    /\ entry_ctrl' = mpu_ctrl
    /\ entry_slots' = mpu_slots
    /\ UNCHANGED <<mpu_ctrl, mpu_rnr, mpu_slots, nwrites, regionVars, asmVars>>

\* WriteCtrlFirst that disables the MPU for the time of the update
WriteCtrlFirstDisabling ==
    /\ wpc = "ctrl_first"
    /\ mpu_ctrl' = [mpu_ctrl EXCEPT !.enable = FALSE, !.hfnmiena = FALSE,
                                    !.privdefena = TRUE]
    /\ wlog' = Append(wlog, [reg |-> "CTRL", val |-> mpu_ctrl'])
    /\ wpc' = IF windex < NUM_MPU_REGIONS THEN "rnr" ELSE "ctrl_second"
    /\ UNCHANGED <<mpu_rnr, mpu_slots, config, windex, nwrites, entry_ctrl,
                   entry_slots, regionVars, asmVars>>

\* mpu.ctrl.write(mpu.ctrl.read().with_enable(true).with_hfnmiena(false)
\*                .with_privdefena(true))
WriteCtrlFirst ==
    /\ wpc = "ctrl_first"
    /\ mpu_ctrl' = [mpu_ctrl EXCEPT !.enable = TRUE, !.hfnmiena = FALSE,
                                    !.privdefena = TRUE]
    /\ wlog' = Append(wlog, [reg |-> "CTRL", val |-> mpu_ctrl'])
    /\ wpc' = IF windex < NUM_MPU_REGIONS THEN "rnr" ELSE "ctrl_second"
    /\ UNCHANGED <<mpu_rnr, mpu_slots, config, windex, nwrites, entry_ctrl,
                   entry_slots, regionVars, asmVars>>

\* mpu.rnr.write(RnrVal::default().with_region(index as u8))
WriteRnr ==
    /\ wpc = "rnr"
    /\ mpu_rnr' = windex % 256
    /\ wlog' = Append(wlog, [reg |-> "RNR", val |-> mpu_rnr'])
    /\ wpc' = "rbar"
    /\ UNCHANGED <<mpu_ctrl, mpu_slots, config, windex, nwrites, entry_ctrl,
                   entry_slots, regionVars, asmVars>>

\* the hardware's effect of a write to MPU_RBAR: with VALID clear the region
\* selected by MPU_RNR takes the address
RbarEffect(slots, rnr, val) ==
    [slots EXCEPT ![IF val.valid THEN val.region ELSE rnr].rbar = val]

\* mpu.rbar.write(region.rbar)
WriteRbar ==
    /\ wpc = "rbar"
    /\ mpu_slots' = RbarEffect(mpu_slots, mpu_rnr, mpu_regions[windex].rbar)
    /\ wlog' = Append(wlog, [reg |-> "RBAR", val |-> mpu_regions[windex].rbar])
    /\ wpc' = "rasr"
    /\ UNCHANGED <<mpu_ctrl, mpu_rnr, config, windex, nwrites, entry_ctrl,
                   entry_slots, regionVars, asmVars>>

\* WriteRasr whose loop ends at the first unused slot
WriteRasrStopAtUnused ==
    /\ wpc = "rasr"
    /\ mpu_slots' = [mpu_slots EXCEPT ![mpu_rnr].rasr = mpu_regions[windex].rasr]
    /\ wlog' = Append(wlog, [reg |-> "RASR", val |-> mpu_regions[windex].rasr])
    /\ windex' = windex + 1
    /\ wpc' = IF /\ windex + 1 < NUM_MPU_REGIONS
                 /\ mpu_regions[windex + 1].rasr.enable
              THEN "rnr" ELSE "ctrl_second"
    /\ UNCHANGED <<mpu_ctrl, mpu_rnr, config, nwrites, entry_ctrl,
                   entry_slots, regionVars, asmVars>>

\* mpu.rasr.write(region.rasr), then the next iteration of the loop
WriteRasr ==
    /\ wpc = "rasr"
    /\ mpu_slots' = [mpu_slots EXCEPT ![mpu_rnr].rasr = mpu_regions[windex].rasr]
    /\ wlog' = Append(wlog, [reg |-> "RASR", val |-> mpu_regions[windex].rasr])
    /\ windex' = windex + 1
    /\ wpc' = IF windex + 1 < NUM_MPU_REGIONS THEN "rnr" ELSE "ctrl_second"
    /\ UNCHANGED <<mpu_ctrl, mpu_rnr, config, nwrites, entry_ctrl,
                   entry_slots, regionVars, asmVars>>

\* mpu.ctrl.write(mpu.ctrl.read().with_enable(true))
WriteCtrlSecond ==
    /\ wpc = "ctrl_second"
    /\ mpu_ctrl' = [mpu_ctrl EXCEPT !.enable = TRUE]
    /\ wlog' = Append(wlog, [reg |-> "CTRL", val |-> mpu_ctrl'])
    /\ wpc' = "dsb"
    /\ UNCHANGED <<mpu_rnr, mpu_slots, config, windex, nwrites, entry_ctrl,
                   entry_slots, regionVars, asmVars>>

\* WriteDsb with the DSB left out
WriteDsbOmitted ==
    /\ wpc = "dsb"
    /\ wpc' = "isb"
    /\ UNCHANGED <<mpu_ctrl, mpu_rnr, mpu_slots, config, windex, wlog, nwrites,
                   entry_ctrl, entry_slots, regionVars, asmVars>>

\* asm!("dsb", "isb"): the first instruction
WriteDsb ==
    /\ wpc = "dsb"
    /\ wlog' = Append(wlog, [reg |-> "DSB", val |-> 0])
    /\ wpc' = "isb"
    /\ UNCHANGED <<mpu_ctrl, mpu_rnr, mpu_slots, config, windex, nwrites,
                   entry_ctrl, entry_slots, regionVars, asmVars>>

\* asm!("dsb", "isb"): the second instruction, then write returns
WriteIsb ==
    /\ wpc = "isb"
    /\ wlog' = Append(wlog, [reg |-> "ISB", val |-> 0])
    /\ wpc' = "done"
    /\ nwrites' = nwrites + 1
    /\ UNCHANGED <<mpu_ctrl, mpu_rnr, mpu_slots, config, windex, entry_ctrl,
                   entry_slots, regionVars, asmVars>>

NextMpu ==
    \/ WriteBegin
    \/ WriteCtrlFirst
    \/ WriteRnr
    \/ WriteRbar
    \/ WriteRasr
    \/ WriteCtrlSecond
    \/ WriteDsb
    \/ WriteIsb

SpecMpu == InitMpu /\ [][NextMpu]_vars

(***************************************************************************)
(* System assembler: ELF values.                                           *)
(* The builder holds addresses and sizes as u64.  A value is an integer    *)
(* read as a two's-complement representative (wrapping_sub of a smaller by *)
(* a larger value is the negative difference), exact while magnitudes stay *)
(* below 2^31; the unsigned order is ULt.                                  *)
(***************************************************************************)
ULt(a, b) == IF (a < 0) = (b < 0) THEN a < b ELSE b < 0

WrappingSub(a, b) == a - b

WrappingAdd(a, b) == a + b

AlignUp(x, a) == ((x + a - 1) \div a) * a

\* Option::None for a SectionId; section ids count from 1
NoSection == 0

\* the Err of get_mapped_section_id ("No mapping for ...")
Unmapped == 0

(***************************************************************************)
(* Names are sequences of characters.                                      *)
(***************************************************************************)
TokenizerPrefix ==
    <<".", "p", "w", "_", "t", "o", "k", "e", "n", "i", "z", "e", "r", ".">>

SymtabName == <<".", "s", "y", "m", "t", "a", "b">>

StrtabName == <<".", "s", "t", "r", "t", "a", "b">>

ShstrtabName == <<".", "s", "h", "s", "t", "r", "t", "a", "b">>

\* the skipped names without .shstrtab
SkippedWithoutShstrtab == {SymtabName, StrtabName}

SKIPPED_APP_SECTIONS == {SymtabName, ShstrtabName, StrtabName}

starts_with(name, prefix) ==
    /\ Len(name) >= Len(prefix)
    /\ SubSeq(name, 1, Len(prefix)) = prefix

is_tokenizer_section(section) ==
    IF section.alloc THEN FALSE ELSE starts_with(section.name, TokenizerPrefix)

Alphanumeric ==
    {"a", "b", "c", "d", "e", "f", "g", "h", "i", "j", "k", "l", "m", "n",
     "o", "p", "q", "r", "s", "t", "u", "v", "w", "x", "y", "z",
     "A", "B", "C", "D", "E", "F", "G", "H", "I", "J", "K", "L", "M", "N",
     "O", "P", "Q", "R", "S", "T", "U", "V", "W", "X", "Y", "Z",
     "0", "1", "2", "3", "4", "5", "6", "7", "8", "9"}

Digits == <<"0", "1", "2", "3", "4", "5", "6", "7", "8", "9">>

\* format!("{index}")
RECURSIVE Decimal(_)
Decimal(n) ==
    IF n < 10 THEN <<Digits[n + 1]>>
    ELSE Decimal(n \div 10) \o <<Digits[(n % 10) + 1]>>

\* get_app_name that keeps every character of the stem
get_app_name_raw(stem, index) == stem \o <<"_">> \o Decimal(index)

\* get_app_name(path, index), from the file stem of path
get_app_name(stem, index) ==
    [k \in 1 .. Len(stem) |->
        IF stem[k] \in Alphanumeric \/ stem[k] = "_" THEN stem[k] ELSE "_"]
    \o <<"_">> \o Decimal(index)

(***************************************************************************)
(* Input images, as Builder::read presents them.                           *)
(* A section: name, alloc (SHF_ALLOC), sh_addr, sh_size, sh_addralign,     *)
(* data, sh_link_section, sh_info_section.  A segment: load (is_load()),   *)
(* p_flags, p_align, p_vaddr, p_paddr, p_memsz and the sections it lists   *)
(* (the allocatable sections it contains).  A symbol: name, bind, section, *)
(* st_value, st_size.                                                      *)
(***************************************************************************)
DataOf(bytes) == [kind |-> "Data", bytes |-> bytes, tags |-> <<>>]

Uninitialized == [kind |-> "UninitializedData", bytes |-> <<>>, tags |-> <<>>]

AttributesOf(tags) == [kind |-> "Attributes", bytes |-> <<>>, tags |-> tags]

\* the variants that carry no inline data: SectionString, Symbol, String, ...
Marker(kind) == [kind |-> kind, bytes |-> <<>>, tags |-> <<>>]

\* the data variants copy_section deep-copies or passes on
CopiedKinds ==
    {"Data", "UninitializedData", "Attributes", "SectionString", "Symbol",
     "SymbolSectionIndex", "String", "DynamicSymbol", "DynamicString", "Hash",
     "GnuHash", "GnuVersym", "GnuVerdef", "GnuVerneed"}

Sec(name, alloc, addr, size, align, data, link, info) ==
    [name |-> name, alloc |-> alloc, sh_addr |-> addr, sh_size |-> size,
     sh_addralign |-> align, data |-> data, sh_link_section |-> link,
     sh_info_section |-> info]

Seg(load, flags, align, vaddr, paddr, memsz, sections) ==
    [load |-> load, p_flags |-> flags, p_align |-> align, p_vaddr |-> vaddr,
     p_paddr |-> paddr, p_memsz |-> memsz, sections |-> sections]

Sym(name, bind, section, value, size) ==
    [name |-> name, bind |-> bind, section |-> section, st_value |-> value,
     st_size |-> size]

TokEntriesName == TokenizerPrefix \o <<"e", "n", "t", "r", "i", "e", "s">>

TokInfoName == TokenizerPrefix \o <<"i", "n", "f", "o">>

\* kernel images: without a tokenizer section, with one, with two
KernelKinds == {"no_tokenizer", "entries", "info_and_entries"}

KernelImage(kind) ==
    [sections |->
        <<Sec(<<".", "t", "e", "x", "t">>, TRUE, 0, 4096, 4, DataOf(<<0>>),
              NoSection, NoSection)>>
        \o (IF kind = "info_and_entries"
            THEN <<Sec(TokInfoName, FALSE, 0, 1, 1, DataOf(<<9>>),
                       NoSection, NoSection)>>
            ELSE <<>>)
        \o (IF kind # "no_tokenizer"
            THEN <<Sec(TokEntriesName, FALSE, 0, 2, 1, DataOf(<<1, 2>>),
                       NoSection, NoSection)>>
            ELSE <<>>),
     segments |-> <<Seg(TRUE, 5, 4096, 0, 0, 4096, <<1>>)>>,
     symbols |-> <<Sym(<<"m", "a", "i", "n">>, "GLOBAL", 1, 16, 4)>>]

\* App images.  slot picks the flash and RAM ranges the app is linked to,
\* pad is the distance between a segment's p_vaddr and its first section,
\* tok the length of the app's tokenizer section (0: none), flavor what
\* else the image holds:
\*   plain        nothing else
\*   linked       sh_link / sh_info references, backward and forward
\*   badlink      a section whose sh_link is .symtab
\*   fwdattr      an attribute tag that lists a section placed after it
\*   badsym       a symbol associated with .strtab
\*   nobits_tok   a tokenizer section without file data
\*   note         a section of a data variant copy_section does not list
FlashBase(slot) == 262144 + (slot - 1) * 65536

RamBase(slot) == 655360 + (slot - 1) * 16384

AppSections(slot, pad, tok, flavor) ==
    << Sec(<<".", "c", "o", "d", "e">>, TRUE, FlashBase(slot) + pad, 256, 4,
           DataOf(<<slot>>), NoSection, NoSection),
       Sec(<<".", "b", "s", "s">>, TRUE, RamBase(slot) + pad, 64, 8,
           Uninitialized, IF flavor = "linked" THEN 5 ELSE NoSection,
           NoSection),
       IF tok = 0
       THEN Sec(<<".", "c", "o", "m", "m", "e", "n", "t">>, FALSE, 0, 1, 1,
                DataOf(<<7>>), NoSection, NoSection)
       ELSE Sec(TokEntriesName, FALSE, 0, tok, 1,
                IF flavor = "nobits_tok" THEN Uninitialized
                ELSE DataOf([k \in 1 .. tok |-> 10 * slot + k]),
                NoSection, NoSection),
       Sec(<<".", "A", "R", "M", ".", "a", "t", "t", "r">>, FALSE, 0, 8, 1,
           AttributesOf(IF flavor = "fwdattr" THEN <<1, 5>> ELSE <<1, 2>>),
           NoSection, NoSection),
       Sec(<<".", "d", "e", "b", "u", "g">>, FALSE, 0, 4, 1,
           IF flavor = "note" THEN Marker("Note") ELSE DataOf(<<5>>),
           CASE flavor = "linked" -> 1
             [] flavor = "badlink" -> 6
             [] OTHER -> NoSection,
           IF flavor = "linked" THEN 2 ELSE NoSection),
       Sec(SymtabName, FALSE, 0, 96, 4, Marker("Symbol"), 7, NoSection),
       Sec(StrtabName, FALSE, 0, 32, 1, Marker("String"), NoSection,
           NoSection),
       Sec(ShstrtabName, FALSE, 0, 48, 1, Marker("SectionString"), NoSection,
           NoSection) >>

AppSegments(slot, pad) ==
    << Seg(TRUE, 5, 4096, FlashBase(slot), FlashBase(slot), 256 + pad, <<1>>),
       Seg(FALSE, 4, 4, FlashBase(slot) + pad, FlashBase(slot) + pad, 256,
           <<1>>),
       Seg(TRUE, 6, 4096, RamBase(slot), FlashBase(slot) + 4096, 64 + pad,
           <<2>>) >>

AppSymbols(slot, pad, flavor) ==
    << Sym(<<"_", "s", "t", "a", "r", "t">>, "GLOBAL", 1,
           FlashBase(slot) + pad, 0),
       Sym(<<"l", "o", "o", "p">>, "LOCAL", 1, FlashBase(slot) + pad + 8, 0),
       Sym(<<"h", "o", "o", "k">>, "WEAK", 2, RamBase(slot) + pad + 4, 4),
       Sym(<<"_", "_", "s", "d", "a", "t", "a">>, "GLOBAL", NoSection,
           RamBase(slot) + pad, 0),
       Sym(<<"s", "t", "a", "c", "k">>, "LOCAL", NoSection, 536870912, 0),
       Sym(<<"p", "r", "e">>, "LOCAL", 1, FlashBase(slot) + pad - 4, 0) >>
    \o (IF flavor = "badsym"
        THEN <<Sym(<<"s", "t", "r">>, "LOCAL", 7, 0, 0)>>
        ELSE <<>>)

AppStem(slot) ==
    IF slot = 1 THEN <<"a", "p", "p", "1">>
    ELSE <<"m", "y", "-", "a", "p", "p", "_", "v", "2">>

AppImage(slot, pad, tok, flavor) ==
    [stem |-> AppStem(slot),
     sections |-> AppSections(slot, pad, tok, flavor),
     segments |-> AppSegments(slot, pad),
     symbols |-> AppSymbols(slot, pad, flavor)]

\* the padding of the source comment: FLASH ORIGIN 0x40420, p_vaddr 0x40000
Pads == {0, 1056}

\* the longest tokenizer section of an app
MaxTok == 2

AppLibrary ==
    {AppImage(slot, pad, tok, "plain") :
        slot \in {1, 2}, pad \in Pads, tok \in {0, MaxTok}}
    \cup {AppImage(1, 1056, 1, f) :
            f \in {"linked", "badlink", "fwdattr", "badsym", "nobits_tok",
                   "note"}}

\* the number of --app arguments
MaxApps == 2

AppLists ==
    UNION {[1 .. n -> AppLibrary] : n \in 0 .. MaxApps}

(***************************************************************************)
(* SpecAsm: assemble(args).                                                *)
(***************************************************************************)
\* the app image being merged and its name
app == args.apps[app_index]

app_name == get_app_name(app.stem, app_index - 1)

\* get_mapped_section_id that hands back the source identifier
get_mapped_section_id_unchanged(map, id) == id

get_mapped_section_id(map, id) ==
    IF id \in DOMAIN map THEN map[id] ELSE Unmapped

\* section_map.insert(k, v)
MapInsert(map, k, v) ==
    [i \in (DOMAIN map) \cup {k} |-> IF i = k THEN v ELSE map[i]]

\* Builder::read(kernel_bytes): the kernel's sections, segments and symbols
\* become the builder's; src records where an entry came from (0: kernel)
ReadSections(image, a) ==
    [i \in 1 .. Len(image.sections) |->
        [name |-> image.sections[i].name,
         alloc |-> image.sections[i].alloc,
         sh_addr |-> image.sections[i].sh_addr,
         sh_size |-> image.sections[i].sh_size,
         sh_addralign |-> image.sections[i].sh_addralign,
         data |-> image.sections[i].data,
         sh_link_section |-> image.sections[i].sh_link_section,
         sh_info_section |-> image.sections[i].sh_info_section,
         src |-> <<a, i>>]]

ReadSegments(image, a) ==
    [i \in 1 .. Len(image.segments) |->
        [p_flags |-> image.segments[i].p_flags,
         p_align |-> image.segments[i].p_align,
         p_vaddr |-> image.segments[i].p_vaddr,
         p_paddr |-> image.segments[i].p_paddr,
         p_memsz |-> image.segments[i].p_memsz,
         sections |-> image.segments[i].sections,
         src |-> <<a, i>>]]

ReadSymbols(image, a) ==
    [i \in 1 .. Len(image.symbols) |->
        [name |-> image.symbols[i].name,
         bind |-> image.symbols[i].bind,
         section |-> image.symbols[i].section,
         st_value |-> image.symbols[i].st_value,
         st_size |-> image.symbols[i].st_size,
         src |-> <<a, i>>]]

\* set_tokenized_section: the first tokenizer section of the builder
FirstTokenizer(sections) ==
    LET toks == {i \in 1 .. Len(sections) : is_tokenizer_section(sections[i])}
    IN  IF toks = {} THEN NoSection
        ELSE CHOOSE i \in toks : \A j \in toks : i <= j

InitAsm ==
    /\ RegionIdle
    /\ MpuIdle
    /\ args \in [kernel : {KernelImage(k) : k \in KernelKinds},
                 apps : AppLists]
    /\ apc = "new"
    /\ out_sections = <<>>
    /\ out_segments = <<>>
    /\ out_symbols = <<>>
    /\ tokenized_section = NoSection
    /\ section_map = <<>>
    /\ sections_for_fixup = <<>>
    /\ app_index = 0
    /\ cursor = 0
    /\ seg_cursor = 0
    /\ section_maps = <<>>

\* SystemImage::new
NewSystemImage ==
    /\ apc = "new"
    /\ out_sections' = ReadSections(args.kernel, 0)
    /\ out_segments' = ReadSegments(args.kernel, 0)
    /\ out_symbols' = ReadSymbols(args.kernel, 0)
    /\ tokenized_section' = FirstTokenizer(out_sections')
    /\ app_index' = 1
    /\ apc' = "app"
    /\ UNCHANGED <<args, section_map, sections_for_fixup, cursor, seg_cursor,
                   section_maps, regionVars, mpuVars>>

\* the loop of assemble(): add_app_image on the next app with a fresh
\* section_map
BeginApp ==
    /\ apc = "app"
    /\ app_index <= Len(args.apps)
    /\ section_map' = <<>>
    /\ sections_for_fixup' = <<>>
    /\ cursor' = 1
    /\ apc' = "sections"
    /\ UNCHANGED <<args, out_sections, out_segments, out_symbols,
                   tokenized_section, app_index, seg_cursor, section_maps,
                   regionVars, mpuVars>>

\* copy_section_attributes: the tag's section ids, remapped; Unmapped when
\* one of them has no mapping (the unwrap panics)
copy_section_attributes(map, data) ==
    IF \A k \in 1 .. Len(data.tags) : data.tags[k] \in DOMAIN map
    THEN AttributesOf([k \in 1 .. Len(data.tags) |->
                          get_mapped_section_id(map, data.tags[k])])
    ELSE Marker("panic")

\* the data copy_section gives the new section; kind "panic" when it panics
CopiedData(map, data) ==
    CASE data.kind = "Attributes" -> copy_section_attributes(map, data)
      [] data.kind \in CopiedKinds \ {"Attributes"} -> data
      [] OTHER -> Marker("panic")

\* copy_section, for the new section named name
copy_section(map, src_section, name, a, i) ==
    [name |-> name,
     alloc |-> src_section.alloc,
     sh_addr |-> src_section.sh_addr,
     sh_size |-> src_section.sh_size,
     sh_addralign |-> src_section.sh_addralign,
     data |-> CopiedData(map, src_section.data),
     sh_link_section |-> src_section.sh_link_section,
     sh_info_section |-> src_section.sh_info_section,
     src |-> <<a, i>>]

\* update_tokenized_section, Some branch: the survivor with the section's
\* size and bytes added
MergedTokenizer(survivor, section) ==
    [survivor EXCEPT !.sh_size = @ + section.sh_size,
                     !.data = DataOf(@.bytes \o section.data.bytes)]

\* one iteration of the section loop of add_app_sections
AddAppSection ==
    /\ apc = "sections"
    /\ cursor <= Len(app.sections)
    /\ LET section == app.sections[cursor]
           is_tokenizer == is_tokenizer_section(section)
           new_id == Len(out_sections) + 1
           map1 == MapInsert(section_map, cursor, new_id)
           name == IF is_tokenizer THEN section.name
                   ELSE section.name \o <<".">> \o app_name
           new_section == copy_section(map1, section, name, app_index, cursor)
       IN
       IF is_tokenizer /\ tokenized_section # NoSection
       THEN \* append to the existing tokenizer section
            IF /\ out_sections[tokenized_section].data.kind = "Data"
               /\ section.data.kind = "Data"
            THEN /\ out_sections' =
                      [out_sections EXCEPT ![tokenized_section] =
                          MergedTokenizer(@, section)]
                 /\ section_map' =
                      MapInsert(section_map, cursor, tokenized_section)
                 /\ cursor' = cursor + 1
                 /\ UNCHANGED <<apc, tokenized_section, sections_for_fixup>>
            ELSE /\ apc' = "panic"
                 /\ UNCHANGED <<out_sections, section_map, cursor,
                                tokenized_section, sections_for_fixup>>
       ELSE IF section.name \in SKIPPED_APP_SECTIONS
       THEN /\ cursor' = cursor + 1
            /\ UNCHANGED <<apc, out_sections, section_map, tokenized_section,
                           sections_for_fixup>>
       ELSE IF new_section.data.kind = "panic"
       THEN /\ apc' = "panic"
            /\ UNCHANGED <<out_sections, section_map, cursor,
                           tokenized_section, sections_for_fixup>>
       ELSE /\ out_sections' = Append(out_sections, new_section)
            /\ section_map' = map1
            /\ tokenized_section' =
                 IF is_tokenizer THEN new_id ELSE tokenized_section
            /\ sections_for_fixup' =
                 IF \/ section.sh_link_section # NoSection
                    \/ section.sh_info_section # NoSection
                 THEN Append(sections_for_fixup, new_id)
                 ELSE sections_for_fixup
            /\ cursor' = cursor + 1
            /\ UNCHANGED apc
    /\ UNCHANGED <<args, out_segments, out_symbols, app_index, seg_cursor,
                   section_maps, regionVars, mpuVars>>

\* the section loop is over: on to the fix-up loop
SectionsDone ==
    /\ apc = "sections"
    /\ cursor > Len(app.sections)
    /\ apc' = "fixup"
    /\ cursor' = 1
    /\ UNCHANGED <<args, out_sections, out_segments, out_symbols,
                   tokenized_section, section_map, sections_for_fixup,
                   app_index, seg_cursor, section_maps, regionVars, mpuVars>>

\* one iteration of the fix-up loop of add_app_sections
FixupSection ==
    /\ apc = "fixup"
    /\ cursor <= Len(sections_for_fixup)
    /\ LET id == sections_for_fixup[cursor]
           section == out_sections[id]
           link == IF section.sh_link_section # NoSection
                   THEN get_mapped_section_id(section_map,
                                              section.sh_link_section)
                   ELSE NoSection
           info == IF section.sh_info_section # NoSection
                   THEN get_mapped_section_id(section_map,
                                              section.sh_info_section)
                   ELSE NoSection
       IN
       IF \/ section.sh_link_section # NoSection /\ link = Unmapped
          \/ section.sh_info_section # NoSection /\ info = Unmapped
       THEN /\ apc' = "error"
            /\ UNCHANGED <<out_sections, cursor>>
       ELSE /\ out_sections' =
                 [out_sections EXCEPT ![id].sh_link_section = link,
                                      ![id].sh_info_section = info]
            /\ cursor' = cursor + 1
            /\ UNCHANGED apc
    /\ UNCHANGED <<args, out_segments, out_symbols, tokenized_section,
                   section_map, sections_for_fixup, app_index, seg_cursor,
                   section_maps, regionVars, mpuVars>>

\* add_app_sections returns Ok: on to add_app_segments
FixupDone ==
    /\ apc = "fixup"
    /\ cursor > Len(sections_for_fixup)
    /\ apc' = "segments"
    /\ cursor' = 1
    /\ UNCHANGED <<args, out_sections, out_segments, out_symbols,
                   tokenized_section, section_map, sections_for_fixup,
                   app_index, seg_cursor, section_maps, regionVars, mpuVars>>

\* the builder's add_load_segment: a new load segment placed by the builder
\* after every segment it already holds
add_load_segment(segments, flags, align) ==
    LET ends == {segments[k].p_vaddr + segments[k].p_memsz :
                    k \in 1 .. Len(segments)}
        top == IF ends = {} THEN 0
               ELSE CHOOSE e \in ends : \A f \in ends : f <= e
    IN  [p_flags |-> flags, p_align |-> align,
         p_vaddr |-> AlignUp(top, align), p_paddr |-> AlignUp(top, align),
         p_memsz |-> 0, sections |-> <<>>]

\* add_load_segment with the builder's addresses left in place
NewLoadSegmentNoOverwrite(segments, segment, a, i) ==
    LET new_segment ==
            add_load_segment(segments, segment.p_flags, segment.p_align)
    IN  [p_flags |-> new_segment.p_flags,
         p_align |-> new_segment.p_align,
         p_vaddr |-> new_segment.p_vaddr,
         p_paddr |-> new_segment.p_paddr,
         p_memsz |-> new_segment.p_memsz,
         sections |-> new_segment.sections,
         src |-> <<a, i>>]

\* the new segment of add_app_segments: add_load_segment, then the source
\* addresses written over the builder's
NewLoadSegment(segments, segment, a, i) ==
    LET new_segment ==
            add_load_segment(segments, segment.p_flags, segment.p_align)
    IN  [p_flags |-> new_segment.p_flags,
         p_align |-> new_segment.p_align,
         p_vaddr |-> segment.p_vaddr,
         p_paddr |-> segment.p_paddr,
         p_memsz |-> new_segment.p_memsz,
         sections |-> new_segment.sections,
         src |-> <<a, i>>]

\* one iteration of the segment loop of add_app_segments, up to its inner loop
BeginSegment ==
    /\ apc = "segments"
    /\ cursor <= Len(app.segments)
    /\ LET segment == app.segments[cursor] IN
       IF ~segment.load
       THEN /\ cursor' = cursor + 1
            /\ UNCHANGED <<apc, out_segments, seg_cursor>>
       ELSE /\ out_segments' =
                 Append(out_segments,
                        NewLoadSegment(out_segments, segment, app_index,
                                       cursor))
            /\ apc' = "seg_sections"
            /\ seg_cursor' = 1
            /\ UNCHANGED cursor
    /\ UNCHANGED <<args, out_sections, out_symbols, tokenized_section,
                   section_map, sections_for_fixup, app_index, section_maps,
                   regionVars, mpuVars>>

\* the builder's append_section: the offset of the section within the segment
SegmentOffset(segment, section) ==
    AlignUp(segment.p_memsz, section.sh_addralign)

\* the builder's append_section: what it makes of the section
\* (sh_addr = p_vaddr + offset within the segment)
append_section_section(segment, section) ==
    [section EXCEPT !.sh_addr = segment.p_vaddr + SegmentOffset(segment, section)]

\* the builder's append_section: what it makes of the segment
append_section_segment(segment, section, id) ==
    [segment EXCEPT
        !.p_memsz = SegmentOffset(segment, section) + section.sh_size,
        !.sections = Append(@, id)]

\* append_section without the restore of sh_addr
AppendedSectionNoRestore(segment, section, original_addr) ==
    append_section_section(segment, section)

\* the section after new_segment.append_section(section) and
\* section.sh_addr = original_addr
AppendedSection(segment, section, original_addr) ==
    [append_section_section(segment, section) EXCEPT !.sh_addr = original_addr]

\* one iteration of the inner loop of add_app_segments
AppendSection ==
    /\ apc = "seg_sections"
    /\ seg_cursor <= Len(app.segments[cursor].sections)
    /\ LET section_id == app.segments[cursor].sections[seg_cursor]
           original_section == app.sections[section_id]
           original_addr == original_section.sh_addr
           mapped_section_id == get_mapped_section_id(section_map, section_id)
           new_segment == out_segments[Len(out_segments)]
       IN
       IF mapped_section_id = Unmapped
       THEN /\ apc' = "error"
            /\ UNCHANGED <<out_sections, out_segments, seg_cursor>>
       ELSE /\ out_sections' =
                 [out_sections EXCEPT ![mapped_section_id] =
                     AppendedSection(new_segment, @, original_addr)]
            /\ out_segments' =
                 [out_segments EXCEPT ![Len(out_segments)] =
                     append_section_segment(
                         @, out_sections[mapped_section_id],
                         mapped_section_id)]
            /\ seg_cursor' = seg_cursor + 1
            /\ UNCHANGED apc
    /\ UNCHANGED <<args, out_symbols, tokenized_section, section_map,
                   sections_for_fixup, app_index, cursor, section_maps,
                   regionVars, mpuVars>>

\* the inner loop is over: the next segment
SegmentDone ==
    /\ apc = "seg_sections"
    /\ seg_cursor > Len(app.segments[cursor].sections)
    /\ apc' = "segments"
    /\ cursor' = cursor + 1
    /\ UNCHANGED <<args, out_sections, out_segments, out_symbols,
                   tokenized_section, section_map, sections_for_fixup,
                   app_index, seg_cursor, section_maps, regionVars, mpuVars>>

\* add_app_segments returns Ok: on to add_app_symbols
SegmentsDone ==
    /\ apc = "segments"
    /\ cursor > Len(app.segments)
    /\ apc' = "symbols"
    /\ cursor' = 1
    /\ UNCHANGED <<args, out_sections, out_segments, out_symbols,
                   tokenized_section, section_map, sections_for_fixup,
                   app_index, seg_cursor, section_maps, regionVars, mpuVars>>

\* the re-basing with the offset within the section dropped
RebasedValueNoOffset(value, old_addr, new_addr) == new_addr

\* new_section.sh_addr.wrapping_add(value.wrapping_sub(old_section.sh_addr))
RebasedValue(value, old_addr, new_addr) ==
    WrappingAdd(new_addr, WrappingSub(value, old_addr))

\* the first allocatable, non-empty source section whose range holds addr
FirstContaining(sections, addr) ==
    LET hits == {i \in 1 .. Len(sections) :
                    /\ sections[i].alloc
                    /\ sections[i].sh_size # 0
                    /\ ~ULt(addr, sections[i].sh_addr)
                    /\ ULt(addr, WrappingAdd(sections[i].sh_addr,
                                             sections[i].sh_size))}
    IN  IF hits = {} THEN NoSection
        ELSE CHOOSE i \in hits : \A j \in hits : i <= j

\* the source section add_app_symbols translates the symbol against
SymbolBaseSection(symbol) ==
    IF symbol.section # NoSection
    THEN symbol.section
    ELSE FirstContaining(app.sections, symbol.st_value)

\* the name of the new symbol: set for a global symbol only
NewSymbolName(symbol) ==
    IF symbol.bind = "GLOBAL"
    THEN symbol.name \o <<"_">> \o app_name
    ELSE <<>>

\* one iteration of the loop of add_app_symbols
AddAppSymbol ==
    /\ apc = "symbols"
    /\ cursor <= Len(app.symbols)
    /\ LET symbol == app.symbols[cursor]
           old_section_id == SymbolBaseSection(symbol)
           new_section_id ==
               IF old_section_id = NoSection THEN NoSection
               ELSE get_mapped_section_id(section_map, old_section_id)
       IN
       IF old_section_id # NoSection /\ new_section_id = Unmapped
       THEN /\ apc' = "error"
            /\ UNCHANGED <<out_symbols, cursor>>
       ELSE /\ out_symbols' = Append(out_symbols,
                 [name |-> NewSymbolName(symbol),
                  bind |-> symbol.bind,
                  section |-> IF symbol.section # NoSection
                              THEN new_section_id ELSE NoSection,
                  st_value |->
                      IF old_section_id = NoSection
                      THEN symbol.st_value
                      ELSE RebasedValue(symbol.st_value,
                                        app.sections[old_section_id].sh_addr,
                                        out_sections[new_section_id].sh_addr),
                  st_size |-> symbol.st_size,
                  src |-> <<app_index, cursor>>])
            /\ cursor' = cursor + 1
            /\ UNCHANGED apc
    /\ UNCHANGED <<args, out_sections, out_segments, tokenized_section,
                   section_map, sections_for_fixup, app_index, seg_cursor,
                   section_maps, regionVars, mpuVars>>

\* add_app_image returns Ok: the next app
SymbolsDone ==
    /\ apc = "symbols"
    /\ cursor > Len(app.symbols)
    /\ apc' = "app"
    /\ app_index' = app_index + 1
    /\ section_maps' = Append(section_maps, section_map)
    /\ UNCHANGED <<args, out_sections, out_segments, out_symbols,
                   tokenized_section, section_map, sections_for_fixup,
                   cursor, seg_cursor, regionVars, mpuVars>>

\* every app is merged: system_image.write
WriteImage ==
    /\ apc = "app"
    /\ app_index > Len(args.apps)
    /\ apc' = "done"
    /\ UNCHANGED <<args, out_sections, out_segments, out_symbols,
                   tokenized_section, section_map, sections_for_fixup,
                   app_index, cursor, seg_cursor, section_maps, regionVars,
                   mpuVars>>

NextAsm ==
    \/ NewSystemImage
    \/ BeginApp
    \/ AddAppSection
    \/ SectionsDone
    \/ FixupSection
    \/ FixupDone
    \/ BeginSegment
    \/ AppendSection
    \/ SegmentDone
    \/ SegmentsDone
    \/ AddAppSymbol
    \/ SymbolsDone
    \/ WriteImage

SpecAsm == InitAsm /\ [][NextAsm]_vars

(***************************************************************************)
(* Region compiler properties.                                             *)
(***************************************************************************)
\* the region handed in is well formed and lies below 2^31
InScope == Lt(region.start, region.end) /\ Lt(region.end, Two31)

Compiled == rpc = "compiled" /\ ~compiled.panic

EmittedBase == compiled.aligned.base

\* the region size the emitted SIZE field stands for: 2^(size_field + 1)
EmittedSize == Pow2(compiled.aligned.size_field + 1)

SubStart(i) == Add(EmittedBase, Times(i, Div8(EmittedSize)))

SubEnd(i) == Add(SubStart(i), Div8(EmittedSize))

\* sub-region i is left enabled: bit i of the SRD mask is clear
SubEnabled(i) == (compiled.aligned.srd_mask \div IntPow2(i)) % 2 = 0

\* address a lies in a sub-region left enabled
Covered(a) ==
    \E i \in 0 .. 7 : SubEnabled(i) /\ Le(SubStart(i), a) /\ Lt(a, SubEnd(i))

\* The enabled set is a union of sub-regions, so it is constant between two
\* consecutive sub-region boundaries: [start, end) is covered iff its first
\* address, its last address and every boundary inside it are covered.
CoverageProbes ==
    {region.start, Sub(region.end, <<0, 1>>)}
    \cup {SubStart(i) : i \in {j \in 0 .. 8 :
                                 /\ Le(region.start, SubStart(j))
                                 /\ Lt(SubStart(j), region.end)}}

StartPage == AlignDown(region.start, PAGE_256KB)

\* C4: for every region with start < end < 2^31 the emitted base is a
\* multiple of the emitted region size 2^(size_field + 1), also when the
\* cross-boundary guard put the 256 KiB page base in place of the naive base.
C4_BaseMultipleOfSize ==
    (Compiled /\ InScope) => AlignDown(EmittedBase, EmittedSize) = EmittedBase

\* C5: for every region with start < end < 2^31 the sub-regions left enabled
\* by the emitted SRD mask cover [start, end); base <= start and
\* base + size >= end.
C5_EnabledSubRegionsCover ==
    (Compiled /\ InScope) =>
        /\ Le(EmittedBase, region.start)
        /\ Le(region.end, Add(EmittedBase, EmittedSize))
        /\ \A a \in CoverageProbes : Covered(a)

\* the size-doubling loop ran at least once and a sub-region is disabled
C5_Witness ==
    /\ Compiled /\ InScope
    /\ compiled.aligned.path = "computed"
    /\ Lt(RoundUpRegionSize(MIN_REGION_SIZE, Sub(region.end, region.start)),
          EmittedSize)
    /\ compiled.aligned.srd_mask # 0
    /\ region.start # EmittedBase

\* C6: for every region with start < end < 2^31 no sub-region left enabled
\* starts below the 256 KiB page of start, and none of the whole-address-space
\* fallback returns is taken.
C6_NothingBelowStartPage ==
    (Compiled /\ InScope) =>
        /\ compiled.aligned.path = "computed"
        /\ \A i \in 0 .. 7 : SubEnabled(i) => Le(StartPage, SubStart(i))

\* the guard replaced the naive aligned base by the page base
C6_Witness ==
    /\ Compiled /\ InScope
    /\ Lt(AlignDown(region.start, EmittedSize), StartPage)
    /\ EmittedBase = StartPage
    /\ SubEnabled(0)

\* the attribute bits of the emitted RASR
EmittedAttributes ==
    [xn |-> compiled.rasr.xn, tex |-> compiled.rasr.tex,
     s |-> compiled.rasr.s, c |-> compiled.rasr.c, b |-> compiled.rasr.b,
     ap |-> compiled.rasr.ap]

\* C13: for each of the five region types from_memory_region emits a RASR
\* with ENABLE=1 and the attribute bits of the table (ReadWriteData is the one
\* normal-memory type that is not shareable, Device has TEX=000 and C=0),
\* whatever start and end are.
C13_AttributeTable ==
    Compiled =>
        /\ compiled.rasr.enable
        /\ region.ty = "ReadOnlyData" =>
              EmittedAttributes = [xn |-> TRUE, tex |-> 1, s |-> TRUE,
                                   c |-> TRUE, b |-> TRUE, ap |-> "RoAny"]
        /\ region.ty = "ReadWriteData" =>
              EmittedAttributes = [xn |-> TRUE, tex |-> 1, s |-> FALSE,
                                   c |-> TRUE, b |-> TRUE, ap |-> "RwAny"]
        /\ region.ty = "ReadOnlyExecutable" =>
              EmittedAttributes = [xn |-> FALSE, tex |-> 1, s |-> TRUE,
                                   c |-> TRUE, b |-> TRUE, ap |-> "RoAny"]
        /\ region.ty = "ReadWriteExecutable" =>
              EmittedAttributes = [xn |-> FALSE, tex |-> 1, s |-> TRUE,
                                   c |-> TRUE, b |-> TRUE, ap |-> "RwAny"]
        /\ region.ty = "Device" =>
              EmittedAttributes = [xn |-> TRUE, tex |-> 0, s |-> TRUE,
                                   c |-> FALSE, b |-> TRUE, ap |-> "RoAny"]

\* a ReadWriteData region that does not start at its hardware base is
\* compiled to an enabled, non-shareable RASR
C13_Witness ==
    /\ Compiled /\ InScope
    /\ region.ty = "ReadWriteData"
    /\ region.start # EmittedBase
    /\ compiled.rasr.enable
    /\ ~compiled.rasr.s

\* the region handed in has end - start >= 2^31
Wide ==
    /\ Le(region.start, region.end)
    /\ Le(Two31, Sub(region.end, region.start))

\* C14: for every input region with end - start >= 2^31 the compiler emits
\* exactly base = 0, size_field = 30, srd_mask = 0, whatever start is.
C14_WideRegionIsMaximum ==
    (rpc = "compiled" /\ Wide) =>
        /\ ~compiled.panic
        /\ compiled.aligned.base = Zero
        /\ compiled.aligned.size_field = 30
        /\ compiled.aligned.srd_mask = 0
        /\ compiled.rbar.addr = 0
        /\ compiled.rasr.size = 30
        /\ compiled.rasr.srd = 0

\* a region of exactly 2^31 bytes that does not start at 0 is compiled to the
\* maximum-size region at base 0
C14_Witness ==
    /\ Compiled /\ Wide
    /\ region.start # Zero
    /\ Sub(region.end, region.start) = Two31
    /\ compiled.aligned.path = "max"
    /\ compiled.aligned.base = Zero
    /\ compiled.rasr.size = 30

\* addresses of the 32-bit address space: the first and last address, the
\* two addresses around 2^31 and every multiple of 256 MiB
AddressProbes ==
    {Zero, Sub(Two31, <<0, 1>>), Two31, MaxUsize}
    \cup {Times(i, Pow2(28)) : i \in 0 .. 15}

\* C15: KERNEL_THREAD_MEMORY_CONFIG covers the full address space as
\* read-write executable: every 32-bit address lies inside a sub-region left
\* enabled by the hardware region compiled from (0x00000000, 0xffffffff), with
\* AP = RW-any and XN = 0.
C15_KernelCoversAddressSpace ==
    (Compiled /\ region = KernelRegion) =>
        /\ compiled.rasr.enable
        /\ compiled.rasr.ap = "RwAny"
        /\ ~compiled.rasr.xn
        /\ \A a \in AddressProbes : Covered(a)

\* sub-region i of the emitted region overlaps [start, end)
SubOverlaps(i) == Lt(SubStart(i), region.end) /\ Lt(region.start, SubEnd(i))

\* C16: for every region with start < end < 2^31, bit i of the emitted SRD
\* mask is set exactly when sub-region i does not satisfy sub_start < end and
\* sub_end > start: no sub-region left enabled lies entirely outside
\* [start, end).
C16_CoverageMinimal ==
    (Compiled /\ InScope) =>
        \A i \in 0 .. 7 :
            /\ ~SubEnabled(i) <=> ~SubOverlaps(i)
            /\ SubEnabled(i) =>
                  ~(Le(SubEnd(i), region.start) \/ Le(region.end, SubStart(i)))

\* sub-regions are disabled both below start and above end, others enabled
C16_Witness ==
    /\ Compiled /\ InScope
    /\ ~SubEnabled(0) /\ Le(SubEnd(0), region.start)
    /\ ~SubEnabled(7) /\ Le(region.end, SubStart(7))
    /\ \E i \in 1 .. 6 : SubEnabled(i)
    /\ compiled.rasr.srd = compiled.aligned.srd_mask

\* what the hardware reads from the emitted registers: the base from
\* RBAR.ADDR[31:5], the size from RASR.SIZE[5:1], the mask from RASR.SRD[15:8]
DecodedBase == <<compiled.rbar.addr, 0>>

DecodedSize == Pow2(compiled.rasr.size + 1)

DecodedSrd == compiled.rasr.srd

\* final_size as calculate_aligned_region computed it (2^31 on the
\* maximum-size returns)
ComputedSize ==
    IF compiled.aligned.path = "computed"
    THEN LET region_size ==
                 RoundUpRegionSize(MIN_REGION_SIZE,
                                   Sub(region.end, region.start))
         IN  CoverLoop(GuardedBase(region.start, region_size), region_size,
                       region.start, region.end).size
    ELSE MAX_REGION_SIZE

\* C17: for every input region, decoding the emitted RBAR and RASR recovers
\* the (base, size, srd_mask) that calculate_aligned_region computed: the
\* base is a multiple of 32 and size_field = log2(size) - 1 lies in 4..30, so
\* both fit their fields without truncation.
C17_RoundTrip ==
    Compiled =>
        /\ DecodedBase = compiled.aligned.base
        /\ DecodedSize = ComputedSize
        /\ DecodedSrd = compiled.aligned.srd_mask
        /\ compiled.aligned.base[2] = 0
        /\ compiled.aligned.size_field \in 4 .. 30
        /\ compiled.rasr.size = compiled.aligned.size_field

\* a region compiled to a non-zero base, a size above the minimum and a
\* non-empty mask, all three recovered from the registers
C17_Witness ==
    /\ Compiled /\ InScope
    /\ compiled.aligned.path = "computed"
    /\ compiled.aligned.base # Zero
    /\ compiled.aligned.size_field > 4
    /\ compiled.aligned.srd_mask # 0
    /\ DecodedBase = compiled.aligned.base
    /\ DecodedSize = ComputedSize
    /\ DecodedSrd = compiled.aligned.srd_mask

\* C18: compiling a logical region with end <= start fails with an
\* InvalidRegion error: no enabled hardware region image is produced for
\* such a region.
C18_MalformedRegionRejected ==
    (rpc = "compiled" /\ Le(region.end, region.start)) =>
        \/ compiled.panic
        \/ ~compiled.rasr.enable

\* C19: the region compiler does not panic on well-formed input: for every
\* region with start < end over 32-bit addresses every intermediate value of
\* calculate_aligned_region stays within the 32-bit unsigned range, also for
\* regions near the top of the address space.
C19_NoOverflow ==
    (rpc = "compiled" /\ Lt(region.start, region.end)) => ~compiled.panic

\* ReadWriteData, start = 0x40420, end = 0x60420
ScenarioA ==
    [ty |-> "ReadWriteData", start |-> U(263200), end |-> U(394272)]

\* C24: Scenario A: for ReadWriteData with start = 0x40420 and end = 0x60420
\* the compiler emits base = 0x40000 and size = 0x40000 (size_field 17), and
\* the SRD mask follows from the overlap predicate: exactly bits 5, 6 and 7
\* are set, sub-regions 0 to 4 are enabled.
C24_ScenarioA ==
    (rpc = "compiled" /\ region = ScenarioA) =>
        /\ ~compiled.panic
        /\ EmittedBase = U(262144)
        /\ compiled.aligned.size_field = 17
        /\ EmittedSize = U(262144)
        /\ \A i \in 0 .. 7 : SubEnabled(i) <=> SubOverlaps(i)
        /\ {i \in 0 .. 7 : SubEnabled(i)} = 0 .. 4
        /\ compiled.aligned.srd_mask = 224
        /\ compiled.rasr.srd = 224
        /\ compiled.rasr.size = 17
        /\ compiled.rbar.addr = 8192

\* Scenario A is compiled, after the coverage loop doubled the size once
C24_Witness ==
    /\ Compiled
    /\ region = ScenarioA
    /\ compiled.aligned.srd_mask = 224
    /\ Lt(RoundUpRegionSize(MIN_REGION_SIZE, Sub(region.end, region.start)),
          EmittedSize)
\* the logical region of the same length that starts where region ends
AdjacentAbove ==
    [ty |-> "ReadWriteData", start |-> region.end,
     end |-> Add(region.end, Sub(region.end, region.start))]

\* sub-region i of a compiled hardware region c, and whether it is enabled
SubStartOf(c, i) ==
    Add(c.aligned.base, Times(i, Div8(Pow2(c.aligned.size_field + 1))))

SubEndOf(c, i) == Add(SubStartOf(c, i), Div8(Pow2(c.aligned.size_field + 1)))

SubEnabledOf(c, i) == (c.rasr.srd \div IntPow2(i)) % 2 = 0

\* the enabled sub-regions of two compiled hardware regions share an address
CoveredSetsMeet(c1, c2) ==
    \E i, j \in 0 .. 7 :
        /\ SubEnabledOf(c1, i)
        /\ SubEnabledOf(c2, j)
        /\ Lt(SubStartOf(c1, i), SubEndOf(c2, j))
        /\ Lt(SubStartOf(c2, j), SubEndOf(c1, i))

\* C27: the encoding is non-overlapping: for two logical regions whose
\* address ranges are disjoint, the address sets covered by the enabled
\* sub-regions of their compiled hardware regions are disjoint as well, also
\* for adjacent ranges whose boundary is not a multiple of the sub-region
\* width.
C27_DisjointRegionsStayDisjoint ==
    (Compiled /\ InScope /\ Lt(AdjacentAbove.end, Two31)) =>
        LET above == from_memory_region(AdjacentAbove) IN
        ~above.panic => ~CoveredSetsMeet(compiled, above)

(***************************************************************************)
(* MPU writer properties.                                                  *)
(***************************************************************************)
InWrite == wpc \in {"ctrl_first", "rnr", "rbar", "rasr", "ctrl_second",
                    "dsb", "isb"}

\* positions in wlog of the writes to a register
WritesOf(reg) == {i \in 1 .. Len(wlog) : wlog[i].reg = reg}

\* C8: write never disables the MPU: every value written to MPU_CTRL has
\* ENABLE = 1, the first also HFNMIENA = 0 and PRIVDEFENA = 1 and the second
\* keeps them; entered with the MPU enabled, ENABLE is 1 in every
\* intermediate state.
C8_NeverDisabled ==
    /\ \A i \in WritesOf("CTRL") :
          /\ wlog[i].val.enable
          /\ ~wlog[i].val.hfnmiena
          /\ wlog[i].val.privdefena
    /\ (WritesOf("CTRL") # {}) => mpu_ctrl.enable
    /\ ((InWrite \/ wpc = "done") /\ entry_ctrl.enable) => mpu_ctrl.enable

\* in the middle of the region loop of a write entered with the MPU enabled
C8_Witness ==
    /\ wpc = "rasr" /\ windex = 3
    /\ entry_ctrl.enable /\ entry_ctrl.hfnmiena /\ ~entry_ctrl.privdefena
    /\ mpu_ctrl.enable /\ ~mpu_ctrl.hfnmiena /\ mpu_ctrl.privdefena

\* the register writes of the region loop, as the protocol lists them
ProtocolRegionWrites ==
    [k \in 1 .. (3 * NUM_MPU_REGIONS) |->
        LET i == (k - 1) \div 3 IN
        CASE (k - 1) % 3 = 0 -> [reg |-> "RNR", val |-> i]
          [] (k - 1) % 3 = 1 -> [reg |-> "RBAR", val |-> mpu_regions[i].rbar]
          [] (k - 1) % 3 = 2 -> [reg |-> "RASR", val |-> mpu_regions[i].rasr]]

\* C9: between its two MPU_CTRL writes, write performs exactly
\* NUM_MPU_REGIONS groups RNR <- i, RBAR <- regions[i].rbar,
\* RASR <- regions[i].rasr, for i ascending from 0, with no slot skipped and
\* nothing interleaved.
C9_RegionWritesInOrder ==
    (wpc \in {"dsb", "isb", "done"}) =>
        /\ Len(wlog) >= 3 * NUM_MPU_REGIONS + 2
        /\ Cardinality(WritesOf("CTRL")) = 2
        /\ wlog[1].reg = "CTRL"
        /\ wlog[3 * NUM_MPU_REGIONS + 2].reg = "CTRL"
        /\ SubSeq(wlog, 2, 3 * NUM_MPU_REGIONS + 1) = ProtocolRegionWrites

\* a write of the two-region configuration over the three-region one is done
C9_Witness ==
    /\ wpc = "done"
    /\ nwrites = 2
    /\ config = 2
    /\ mpu_slots[2].rasr.enable = FALSE
    /\ mpu_slots[1].rasr.enable = TRUE

\* C10: when write returns, a DSB immediately followed by an ISB has been
\* issued after the last RASR write and after the final MPU_CTRL write, and
\* no MPU register is written after that pair.
C10_BarriersLast ==
    /\ (wpc = "done") =>
          LET n == Len(wlog) IN
          /\ n >= 4
          /\ wlog[n - 1].reg = "DSB"
          /\ wlog[n].reg = "ISB"
          /\ wlog[n - 2].reg = "CTRL"
          /\ WritesOf("RASR") # {}
          /\ \A i \in WritesOf("RASR") \cup WritesOf("CTRL") \cup
                      WritesOf("RNR") \cup WritesOf("RBAR") : i < n - 1
    /\ \A i \in WritesOf("DSB") :
          i < Len(wlog) => (i + 1 = Len(wlog) /\ wlog[i + 1].reg = "ISB")

\* write has returned with the barrier pair at the end of its trace
C10_Witness ==
    /\ wpc = "done"
    /\ Len(wlog) = 3 * NUM_MPU_REGIONS + 4
    /\ wlog[Len(wlog)].reg = "ISB"

\* the logical regions of the configuration being written
WrittenRegions == MemoryConfigs[config]

\* C25: for a MemoryConfig built by const_new from k <= NUM_MPU_REGIONS
\* logical regions, after write completes from any prior MPU state, hardware
\* slot i holds the image compiled from regions[i] for every i < k and every
\* slot i >= k holds a RASR with the enable bit clear; MPU_CTRL has ENABLE=1,
\* HFNMIENA=0, PRIVDEFENA=1.
C25_SlotsHoldConfiguration ==
    wpc = "done" =>
        /\ Len(WrittenRegions) <= NUM_MPU_REGIONS
        /\ \A i \in 0 .. (NUM_MPU_REGIONS - 1) :
              IF i < Len(WrittenRegions)
              THEN /\ mpu_slots[i].rbar =
                         from_memory_region(WrittenRegions[i + 1]).rbar
                   /\ mpu_slots[i].rasr =
                         from_memory_region(WrittenRegions[i + 1]).rasr
                   /\ mpu_slots[i].rasr.enable
              ELSE ~mpu_slots[i].rasr.enable
        /\ mpu_ctrl = [enable |-> TRUE, hfnmiena |-> FALSE,
                       privdefena |-> TRUE]

\* a configuration of one region has been written over slots that were all
\* enabled, with the MPU disabled and HFNMIENA set on entry
C25_Witness ==
    /\ wpc = "done"
    /\ Len(WrittenRegions) = 1
    /\ \A i \in 0 .. (NUM_MPU_REGIONS - 1) : entry_slots[i].rasr.enable
    /\ ~entry_ctrl.enable /\ entry_ctrl.hfnmiena
    /\ \A i \in 1 .. (NUM_MPU_REGIONS - 1) : ~mpu_slots[i].rasr.enable
    /\ mpu_slots[0].rasr.enable

\* C26: at every intermediate point of write, between any two consecutive
\* register writes while the MPU is enabled, each hardware region slot holds
\* an (RBAR, RASR) pair that is entirely the pair of the previously written
\* configuration or entirely the pair of the new one; no enabled slot
\* combines the new base address with the old size, SRD mask or attributes.
C26_NoMixedPair ==
    (InWrite /\ mpu_ctrl.enable) =>
        \A i \in 0 .. (NUM_MPU_REGIONS - 1) :
            mpu_slots[i].rasr.enable =>
                \/ mpu_slots[i] = entry_slots[i]
                \/ mpu_slots[i] = mpu_regions[i]

(***************************************************************************)
(* System assembler properties.                                            *)
(***************************************************************************)
\* assemble() returned Ok: every app is merged and the image is written
Assembled == apc = "done"

\* the output entries that came from the apps
AppOutSections == {i \in 1 .. Len(out_sections) : out_sections[i].src[1] # 0}

AppOutSegments == {k \in 1 .. Len(out_segments) : out_segments[k].src[1] # 0}

AppOutSymbols == {k \in 1 .. Len(out_symbols) : out_symbols[k].src[1] # 0}

SourceSection(i) ==
    args.apps[out_sections[i].src[1]].sections[out_sections[i].src[2]]

\* the output section is listed in some output segment
InSomeSegment(i) ==
    \E k \in 1 .. Len(out_segments) :
        \E n \in 1 .. Len(out_segments[k].sections) :
            out_segments[k].sections[n] = i

\* the output section is listed in an output segment that starts below it
PaddedInSegment(i) ==
    \E k \in AppOutSegments :
        /\ \E n \in 1 .. Len(out_segments[k].sections) :
              out_segments[k].sections[n] = i
        /\ out_segments[k].p_vaddr < out_sections[i].sh_addr

\* C1: after assembling a kernel and any number of apps, every output section
\* created from an app section has the sh_addr of its source section, whether
\* it belongs to no segment or was appended to a load segment (where the
\* builder's append first overwrites sh_addr with p_vaddr + offset).
C1_ShAddrPreserved ==
    Assembled =>
        \A i \in AppOutSections :
            out_sections[i].sh_addr = SourceSection(i).sh_addr

\* an assembled image of two apps with a section appended to a segment that
\* starts 0x420 below it, and a section that belongs to no segment
C1_Witness ==
    /\ Assembled
    /\ Len(args.apps) = 2
    /\ \E i \in AppOutSections :
          /\ PaddedInSegment(i)
          /\ out_sections[i].sh_addr = SourceSection(i).sh_addr
    /\ \E i \in AppOutSections : ~InSomeSegment(i)

\* the source section add_app_symbols translates symbol j of app a against
BaseSectionOf(a, j) ==
    LET symbol == args.apps[a].symbols[j]
    IN  IF symbol.section # NoSection
        THEN symbol.section
        ELSE FirstContaining(args.apps[a].sections, symbol.st_value)

\* symbol j of app a lay within a mapped, allocatable section
InMappedAllocSection(a, j) ==
    /\ BaseSectionOf(a, j) # NoSection
    /\ BaseSectionOf(a, j) \in DOMAIN section_maps[a]
    /\ args.apps[a].sections[BaseSectionOf(a, j)].alloc

OutSymbolsOf(a, j) ==
    {k \in 1 .. Len(out_symbols) : out_symbols[k].src = <<a, j>>}

\* C2: every symbol of every input app has exactly one output symbol, and its
\* st_value is the input st_value whenever the symbol lay within a mapped,
\* allocatable section (section-associated, or absolute with its value inside
\* the first allocatable non-empty section) or within no section at all.
C2_SymbolValuesPreserved ==
    Assembled =>
        \A a \in 1 .. Len(args.apps) :
            \A j \in 1 .. Len(args.apps[a].symbols) :
                /\ Cardinality(OutSymbolsOf(a, j)) = 1
                /\ (InMappedAllocSection(a, j) \/ BaseSectionOf(a, j) = NoSection)
                      => \A k \in OutSymbolsOf(a, j) :
                            out_symbols[k].st_value =
                                args.apps[a].symbols[j].st_value

\* an assembled image that holds a section-associated symbol at a non-zero
\* offset of a padded section, an absolute symbol inside an allocatable
\* section and an absolute symbol outside every section
C2_Witness ==
    /\ Assembled
    /\ \E k \in AppOutSymbols :
          LET a == out_symbols[k].src[1]
              j == out_symbols[k].src[2]
              symbol == args.apps[a].symbols[j]
          IN  /\ symbol.section # NoSection
              /\ InMappedAllocSection(a, j)
              /\ symbol.st_value # args.apps[a].sections[symbol.section].sh_addr
              /\ PaddedInSegment(out_symbols[k].section)
    /\ \E k \in AppOutSymbols :
          LET a == out_symbols[k].src[1]
              j == out_symbols[k].src[2]
          IN  /\ args.apps[a].symbols[j].section = NoSection
              /\ InMappedAllocSection(a, j)
    /\ \E k \in AppOutSymbols :
          LET a == out_symbols[k].src[1]
              j == out_symbols[k].src[2]
          IN  BaseSectionOf(a, j) = NoSection

OutSegmentsOf(a, j) ==
    {k \in 1 .. Len(out_segments) : out_segments[k].src = <<a, j>>}

\* C3: each loadable source segment of each app yields exactly one output
\* load segment with the source's p_vaddr and p_paddr, whatever the builder
\* assigned and whatever was added before; a non-loadable source segment
\* yields none.
C3_SegmentAddressesPreserved ==
    Assembled =>
        \A a \in 1 .. Len(args.apps) :
            \A j \in 1 .. Len(args.apps[a].segments) :
                IF args.apps[a].segments[j].load
                THEN /\ Cardinality(OutSegmentsOf(a, j)) = 1
                     /\ \A k \in OutSegmentsOf(a, j) :
                           /\ out_segments[k].p_vaddr =
                                 args.apps[a].segments[j].p_vaddr
                           /\ out_segments[k].p_paddr =
                                 args.apps[a].segments[j].p_paddr
                ELSE OutSegmentsOf(a, j) = {}

\* an assembled image of two apps that holds a load segment whose p_vaddr and
\* p_paddr differ (the builder assigns one address to both), added after
\* other app segments, from an app that also has a non-loadable segment
C3_Witness ==
    /\ Assembled
    /\ Len(args.apps) = 2
    /\ \E k \in AppOutSegments :
          /\ out_segments[k].src[1] = 2
          /\ out_segments[k].p_vaddr # out_segments[k].p_paddr
          /\ out_segments[k].sections # <<>>
          /\ \E j \in 1 .. Len(args.apps[2].segments) :
                ~args.apps[2].segments[j].load

\* the tokenizer sections of a section table, in order: their bytes and the
\* sum of their sizes
RECURSIVE TokenizerBytes(_, _)
TokenizerBytes(sections, n) ==
    IF n = 0 THEN <<>>
    ELSE TokenizerBytes(sections, n - 1)
         \o (IF is_tokenizer_section(sections[n])
             THEN sections[n].data.bytes ELSE <<>>)

RECURSIVE TokenizerSize(_, _)
TokenizerSize(sections, n) ==
    IF n = 0 THEN 0
    ELSE TokenizerSize(sections, n - 1)
         + (IF is_tokenizer_section(sections[n])
            THEN sections[n].sh_size ELSE 0)

\* the same over the kernel and the first n apps
RECURSIVE InputTokenizerBytes(_)
InputTokenizerBytes(n) ==
    IF n = 0
    THEN TokenizerBytes(args.kernel.sections, Len(args.kernel.sections))
    ELSE InputTokenizerBytes(n - 1)
         \o TokenizerBytes(args.apps[n].sections, Len(args.apps[n].sections))

RECURSIVE InputTokenizerSize(_)
InputTokenizerSize(n) ==
    IF n = 0
    THEN TokenizerSize(args.kernel.sections, Len(args.kernel.sections))
    ELSE InputTokenizerSize(n - 1)
         + TokenizerSize(args.apps[n].sections, Len(args.apps[n].sections))

OutTokenizerSections ==
    {i \in 1 .. Len(out_sections) : is_tokenizer_section(out_sections[i])}

\* the app tokenizer sections that did not become output sections themselves
MergedTokenizerIds(a) ==
    {s \in 1 .. Len(args.apps[a].sections) :
        /\ is_tokenizer_section(args.apps[a].sections[s])
        /\ \A i \in 1 .. Len(out_sections) : out_sections[i].src # <<a, s>>}

\* C7: if the kernel or any app contains a tokenizer section, the assembled
\* output contains exactly one; its data is the concatenation of the input
\* tokenizer sections, kernel first and then the apps in order, its sh_size
\* the sum of theirs, and every merged source tokenizer section id is mapped
\* to it.
C7_OneTokenizerSection ==
    (Assembled /\ InputTokenizerSize(Len(args.apps)) > 0) =>
        /\ Cardinality(OutTokenizerSections) = 1
        /\ \A t \in OutTokenizerSections :
              /\ out_sections[t].data.kind = "Data"
              /\ out_sections[t].data.bytes =
                    InputTokenizerBytes(Len(args.apps))
              /\ out_sections[t].sh_size = InputTokenizerSize(Len(args.apps))
              /\ \A a \in 1 .. Len(args.apps) :
                    \A s \in MergedTokenizerIds(a) :
                        /\ s \in DOMAIN section_maps[a]
                        /\ section_maps[a][s] = t


\* the app name the naming rule gives the app at position a (from 1) of the
\* --app arguments, written out for the stems of the inputs
ExpectedAppName(a) ==
    (IF args.apps[a].stem = <<"a", "p", "p", "1">>
     THEN <<"a", "p", "p", "1">>
     ELSE <<"m", "y", "_", "a", "p", "p", "_", "v", "2">>)
    \o <<"_">> \o <<(<<"0", "1", "2", "3", "4">>)[a]>>

SourceSymbol(k) ==
    args.apps[out_symbols[k].src[1]].symbols[out_symbols[k].src[2]]

\* C11: every app symbol with global binding appears in the output under the
\* name <original>_<appname>, appname being the file stem with every character
\* that is neither alphanumeric nor underscore replaced by underscore,
\* followed by _<index>, the zero-based position of the app.
C11_GlobalSymbolsRenamed ==
    Assembled =>
        \A a \in 1 .. Len(args.apps) :
            \A j \in 1 .. Len(args.apps[a].symbols) :
                args.apps[a].symbols[j].bind = "GLOBAL" =>
                    \E k \in OutSymbolsOf(a, j) :
                        out_symbols[k].name =
                            args.apps[a].symbols[j].name \o <<"_">>
                            \o ExpectedAppName(a)

\* the second of two apps has the stem my-app_v2 and its global symbol _start
\* is in the output as _start_my_app_v2_1
C11_Witness ==
    /\ Assembled
    /\ Len(args.apps) = 2
    /\ \E k \in AppOutSymbols :
          /\ out_symbols[k].src[1] = 2
          /\ SourceSymbol(k).bind = "GLOBAL"
          /\ out_symbols[k].name =
                <<"_", "s", "t", "a", "r", "t", "_", "m", "y", "_", "a", "p",
                  "p", "_", "v", "2", "_", "1">>

\* C12: app symbols with local or weak binding are not renamed: the output
\* symbol that corresponds to such a symbol carries the name of the source
\* symbol.
C12_LocalWeakNamesKept ==
    Assembled =>
        \A k \in AppOutSymbols :
            SourceSymbol(k).bind \in {"LOCAL", "WEAK"} =>
                out_symbols[k].name = SourceSymbol(k).name


OutSectionsOf(a, s) ==
    {i \in 1 .. Len(out_sections) : out_sections[i].src = <<a, s>>}

\* a tokenizer section precedes section s of app a in the order of the merge:
\* in the kernel, in an earlier app or earlier in the same app
TokenizerBefore(a, s) ==
    \/ \E n \in 1 .. Len(args.kernel.sections) :
          is_tokenizer_section(args.kernel.sections[n])
    \/ \E b \in 1 .. a - 1 : \E n \in 1 .. Len(args.apps[b].sections) :
          is_tokenizer_section(args.apps[b].sections[n])
    \/ \E n \in 1 .. s - 1 : is_tokenizer_section(args.apps[a].sections[n])

\* C20: for each app, every source section yields exactly one new output
\* section named <original_name>.<appname> and one SectionMap entry, except
\* that .symtab, .strtab and .shstrtab yield no section and no entry, a
\* tokenizer section merged into an existing survivor yields no new section,
\* and a tokenizer section that becomes the survivor keeps its original name.
C20_SectionsCopiedAndRenamed ==
    Assembled =>
        \A a \in 1 .. Len(args.apps) :
            \A s \in 1 .. Len(args.apps[a].sections) :
                LET section == args.apps[a].sections[s]
                    map == section_maps[a]
                IN
                IF is_tokenizer_section(section)
                THEN IF TokenizerBefore(a, s)
                     THEN /\ OutSectionsOf(a, s) = {}
                          /\ s \in DOMAIN map
                          /\ is_tokenizer_section(out_sections[map[s]])
                     ELSE /\ Cardinality(OutSectionsOf(a, s)) = 1
                          /\ s \in DOMAIN map
                          /\ OutSectionsOf(a, s) = {map[s]}
                          /\ out_sections[map[s]].name = section.name
                ELSE IF section.name \in
                          {SymtabName, StrtabName, ShstrtabName}
                THEN /\ OutSectionsOf(a, s) = {}
                     /\ s \notin DOMAIN map
                ELSE /\ Cardinality(OutSectionsOf(a, s)) = 1
                     /\ s \in DOMAIN map
                     /\ OutSectionsOf(a, s) = {map[s]}
                     /\ out_sections[map[s]].name =
                           section.name \o <<".">> \o ExpectedAppName(a)

\* two apps on a kernel without tokenizer section: the first app's
\* tokenizer section is the survivor under its own name, the second app's is
\* merged into it, and .code of the second app is .code.my_app_v2_1
C20_Witness ==
    /\ Assembled
    /\ Len(args.apps) = 2
    /\ \E s \in 1 .. Len(args.apps[1].sections) :
          /\ is_tokenizer_section(args.apps[1].sections[s])
          /\ ~TokenizerBefore(1, s)
          /\ out_sections[section_maps[1][s]].name = TokEntriesName
          /\ \E t \in 1 .. Len(args.apps[2].sections) :
                /\ is_tokenizer_section(args.apps[2].sections[t])
                /\ OutSectionsOf(2, t) = {}
                /\ section_maps[2][t] = section_maps[1][s]
    /\ \E i \in AppOutSections :
          out_sections[i].name =
              <<".", "c", "o", "d", "e", ".", "m", "y", "_", "a", "p", "p",
                "_", "v", "2", "_", "1">>
    /\ \E s \in 1 .. Len(args.apps[2].sections) :
          /\ args.apps[2].sections[s].name = ShstrtabName
          /\ s \notin DOMAIN section_maps[2]


\* add_app_sections has returned Ok for app a
SectionsAdded(a) ==
    \/ a < app_index
    \/ a = app_index /\ apc \in {"segments", "seg_sections", "symbols"}

\* add_app_sections has run to its end for app a, with Ok or with an error
SectionsRun(a) ==
    \/ SectionsAdded(a)
    \/ a = app_index /\ apc = "error"

\* the section_map of app a
MapOf(a) == IF a <= Len(section_maps) THEN section_maps[a] ELSE section_map

\* the references of the source section an output section was copied from
SourceLink(i) == SourceSection(i).sh_link_section

SourceInfo(i) == SourceSection(i).sh_info_section

\* an output section copied from app a refers to a section without mapping
HasUnmappedReference(a) ==
    \E i \in AppOutSections :
        /\ out_sections[i].src[1] = a
        /\ \/ SourceLink(i) # NoSection /\ SourceLink(i) \notin DOMAIN MapOf(a)
           \/ SourceInfo(i) # NoSection /\ SourceInfo(i) \notin DOMAIN MapOf(a)

\* C21: after add_app_sections returns successfully, every newly added output
\* section whose source had an sh_link or sh_info reference holds the
\* destination identifier of the referenced source section, whether that
\* section comes before or after it in the source; when a reference points
\* to a skipped section add_app_sections fails with an error.
C21_ReferencesRemapped ==
    \A a \in 1 .. Len(args.apps) :
        /\ SectionsAdded(a) =>
              \A i \in AppOutSections :
                  out_sections[i].src[1] = a =>
                      /\ SourceLink(i) # NoSection =>
                            /\ SourceLink(i) \in DOMAIN MapOf(a)
                            /\ out_sections[i].sh_link_section =
                                  MapOf(a)[SourceLink(i)]
                      /\ SourceLink(i) = NoSection =>
                            out_sections[i].sh_link_section = NoSection
                      /\ SourceInfo(i) # NoSection =>
                            /\ SourceInfo(i) \in DOMAIN MapOf(a)
                            /\ out_sections[i].sh_info_section =
                                  MapOf(a)[SourceInfo(i)]
                      /\ SourceInfo(i) = NoSection =>
                            out_sections[i].sh_info_section = NoSection
        /\ (SectionsRun(a) /\ HasUnmappedReference(a)) => apc = "error"

\* add_app_sections has returned for an app with a section that refers to a
\* section after it and a section that refers to sections before it, and the
\* forward reference holds an identifier that differs from the source's
C21_Witness ==
    /\ apc = "segments"
    /\ \E i, j \in AppOutSections :
          /\ out_sections[i].src[1] = app_index
          /\ out_sections[j].src[1] = app_index
          /\ SourceLink(i) > out_sections[i].src[2]
          /\ out_sections[i].sh_link_section = section_map[SourceLink(i)]
          /\ out_sections[i].sh_link_section # SourceLink(i)
          /\ SourceLink(j) # NoSection
          /\ SourceLink(j) < out_sections[j].src[2]
          /\ SourceInfo(j) # NoSection
          /\ out_sections[j].sh_info_section = section_map[SourceInfo(j)]


\* the output sections copied from attribute sections
AttributeOutSections ==
    {i \in AppOutSections : SourceSection(i).data.kind = "Attributes"}

\* C22: for every attribute sub-sub-section of an app whose tag lists section
\* identifiers, each listed identifier is replaced in the output by the
\* destination identifier of that source section, for any order of sections
\* in the source, also when the attribute section refers to a section that
\* appears after it in the section list.
C22_AttributeTagsRemapped ==
    /\ \A i \in AttributeOutSections :
          LET a == out_sections[i].src[1]
              tags == SourceSection(i).data.tags
          IN  /\ out_sections[i].data.kind = "Attributes"
              /\ Len(out_sections[i].data.tags) = Len(tags)
              /\ \A k \in 1 .. Len(tags) :
                    /\ tags[k] \in DOMAIN MapOf(a)
                    /\ out_sections[i].data.tags[k] = MapOf(a)[tags[k]]
    /\ ~(apc = "panic" /\ app.sections[cursor].data.kind = "Attributes")


\* section n of the app being merged carries a data variant copy_section
\* cannot deep-copy, or is a tokenizer section that is to be merged into the
\* survivor while one of the two does not hold raw bytes
UnsupportedSectionData(n) ==
    LET section == app.sections[n] IN
    IF is_tokenizer_section(section) /\ tokenized_section # NoSection
    THEN \/ section.data.kind # "Data"
         \/ out_sections[tokenized_section].data.kind # "Data"
    ELSE /\ section.name \notin SKIPPED_APP_SECTIONS
         /\ section.data.kind \notin CopiedKinds

\* C23: when an app section carries a section-data variant the assembler
\* cannot deep-copy, or a tokenizer section to be merged does not hold raw
\* bytes, the merge ends with an error value that is propagated to the
\* top-level tool; it does not abort by panicking inside library code.
C23_UnsupportedDataIsError ==
    ~(apc = "panic" /\ UnsupportedSectionData(cursor))


\* add_app_symbols is at a symbol whose source section has no SectionMap entry
AtUnmappedSymbol ==
    /\ apc = "symbols"
    /\ cursor <= Len(app.symbols)
    /\ app.symbols[cursor].section # NoSection
    /\ app.symbols[cursor].section \notin DOMAIN section_map

\* C28: when an app symbol is associated with a source section that was
\* filtered out of the merge (it has no SectionMap entry), add_app_symbols
\* still emits the symbol with its original st_value and the merge of that
\* app continues.
C28_UnmappedSymbolKept ==
    [][AtUnmappedSymbol =>
           /\ apc' = "symbols"
           /\ Len(out_symbols') = Len(out_symbols) + 1
           /\ out_symbols'[Len(out_symbols')].st_value =
                  app.symbols[cursor].st_value]_vars

====
